---- MODULE Spec2Model ----
(***************************************************************************)
(* Doctor App backend (src/main.py, src/schemas.py): the document store,   *)
(* the request handlers over it and the two derived utilities.             *)
(*                                                                         *)
(* A stored document is a function from field names to values (a dict).    *)
(* Text that the code looks into (names matched by a pattern, transcripts, *)
(* medication values) is a sequence of one-character strings; other text   *)
(* is an opaque string.  Python's None is the string None where a string   *)
(* is expected and the one-element sequence NoneList where a list or a     *)
(* character sequence is (TLC compares values of one kind only).           *)
(* An ObjectId is a positive integer; an identifier    *)
(* string is a record [form, n]: form "hex" is the lower-case 24-digit     *)
(* rendering of ObjectId n, "HEX" its upper-case rendering, "bad" a string *)
(* that is no 24-digit hex string.                                         *)
(***************************************************************************)
EXTENDS Integers, Sequences, FiniteSets, TLC

\* Bounds of the model.
MaxDocs == 2
NumWorkers == 2
MaxPieces == 4
MaxMeds == 2

None == "None"
NoneList == << "None" >>

Collections == {"doctor", "facility", "patient", "appointment", "emr", "prescription"}

\* The fields holding a list or a character sequence.
SeqFields == {"facility_ids", "medications", "full_name"}

IsNone(k, v) == IF k \in SeqFields THEN v = NoneList ELSE v = None

\* Python truthiness of an optional string: None and "" are falsy.
Truthy(v) == v # None /\ v # ""

\* The same of an optional character sequence.
TruthyText(v) == v # NoneList /\ v # << >>

LowerCase ==
    << "a", "b", "c", "d", "e", "f", "g", "h", "i", "j", "k", "l", "m",
       "n", "o", "p", "q", "r", "s", "t", "u", "v", "w", "x", "y", "z" >>

UpperCase ==
    << "A", "B", "C", "D", "E", "F", "G", "H", "I", "J", "K", "L", "M",
       "N", "O", "P", "Q", "R", "S", "T", "U", "V", "W", "X", "Y", "Z" >>

\* One character folded to lower case, as re.IGNORECASE and "$options": "i" compare.
LowerOf ==
    [ch \in {UpperCase[i] : i \in 1..26} |->
        LowerCase[CHOOSE i \in 1..26 : UpperCase[i] = ch]]

Lower(ch) == IF ch \in DOMAIN LowerOf THEN LowerOf[ch] ELSE ch

\* Does the literal pattern pat occur in text at position i, ignoring case?
MatchesAt(pat, text, i) ==
    /\ i + Len(pat) - 1 <= Len(text)
    /\ \A j \in 1..Len(pat) : Lower(text[i + j - 1]) = Lower(pat[j])

Min(a, b) == IF a < b THEN a ELSE b

RECURSIVE SeqSum(_)
SeqSum(s) == IF s = << >> THEN 0 ELSE Head(s) + SeqSum(Tail(s))

Reverse(s) == [i \in 1..Len(s) |-> s[Len(s) + 1 - i]]

RECURSIVE SelectDocs(_, _)
SelectDocs(s, q) ==
    IF s = << >> THEN << >>
    ELSE IF q[Head(s)] THEN << Head(s) >> \o SelectDocs(Tail(s), q)
         ELSE SelectDocs(Tail(s), q)

(***************************************************************************)
(* schemas.py: per collection, the fields that must be given and the       *)
(* defaults of the others.                                                 *)
(***************************************************************************)
Required ==
    [doctor       |-> {"full_name", "email"},
     facility     |-> {"name"},
     patient      |-> {"full_name"},
     appointment  |-> {"doctor_id", "patient_id", "start_time"},
     emr          |-> {"doctor_id", "patient_id"},
     prescription |-> {"doctor_id", "patient_id"}]

Defaults ==
    [doctor       |-> [phone |-> None, specialty |-> None, avatar_url |-> None,
                       facility_ids |-> << >>, bio |-> None, tenant_id |-> None],
     facility     |-> [address |-> None, phone |-> None, tenant_id |-> None],
     patient      |-> [dob |-> None, gender |-> None, email |-> None, phone |-> None,
                       address |-> None, tenant_id |-> None],
     appointment  |-> [facility_id |-> None, end_time |-> None, status |-> "scheduled",
                       reason |-> None, notes |-> None, tenant_id |-> None],
     emr          |-> [appointment_id |-> None, chief_complaint |-> None,
                       history_of_present_illness |-> None, review_of_systems |-> None,
                       physical_exam |-> None, assessment |-> None, plan |-> None,
                       summary |-> None, tenant_id |-> None],
     prescription |-> [medications |-> << >>, notes |-> None, appointment_id |-> None,
                       tenant_id |-> None]]

\* Fields declared without Optional: null is refused for them.
NotNullable ==
    [doctor       |-> {"full_name", "email", "facility_ids"},
     facility     |-> {"name"},
     patient      |-> {"full_name"},
     appointment  |-> {"doctor_id", "patient_id", "start_time", "status"},
     emr          |-> {"doctor_id", "patient_id"},
     prescription |-> {"doctor_id", "patient_id", "medications"}]

SchemaFields(c) == Required[c] \cup DOMAIN Defaults[c]

\* Pydantic's validation of a request body (a dict) against the model of c.
Validates(c, body) ==
    /\ Required[c] \subseteq DOMAIN body
    /\ \A k \in DOMAIN body \cap NotNullable[c] : ~IsNone(k, body[k])

\* payload.model_dump(): every declared field, defaults filled in, other keys dropped.
ModelDump(c, body) ==
    [k \in SchemaFields(c) |-> IF k \in DOMAIN body THEN body[k] ELSE Defaults[c][k]]

(***************************************************************************)
(* Identifiers.                                                            *)
(***************************************************************************)
ObjectIdStr(n) == [form |-> "hex", n |-> n]

IdStrings ==
    {[form |-> "hex", n |-> n] : n \in 1..(MaxDocs + 1)}
        \cup {[form |-> "HEX", n |-> 1], [form |-> "bad", n |-> 1]}

\* ObjectId(id_str) raises unless id_str is a 24-digit hex string, in either case.
WellFormed(id_str) == id_str.form \in {"hex", "HEX"}

\* oid(): the ObjectId, or 0 where the code raises HTTPException(400).
oid(id_str) == IF WellFormed(id_str) THEN id_str.n ELSE 0

\* serialize(): "_id" becomes the public "id" string.  No modelled field holds a
\* datetime, so the isoformat loop changes nothing.
serialize(doc) ==
    IF DOMAIN doc = {} THEN doc
    ELSE [k \in (DOMAIN doc \ {"_id"}) \cup {"id"} |->
            IF k = "id" THEN ObjectIdStr(doc["_id"]) ELSE doc[k]]

(***************************************************************************)
(* Request inputs.                                                         *)
(***************************************************************************)
EmptyBody == [k \in {} |-> None]

Bodies ==
    [doctor       |-> {[full_name |-> << "A" >>, email |-> "a@x", tenant_id |-> "t1"],
                       [full_name |-> << "B" >>, email |-> "b@x", phone |-> "p0",
                        facility_ids |-> << "f1" >>],
                       [full_name |-> << "C" >>]},
     facility     |-> {[name |-> "F"]},
     patient      |-> {[full_name |-> << "A", "n" >>, tenant_id |-> "t1"],
                       [full_name |-> << "b", "o" >>],
                       [full_name |-> NoneList]},
     appointment  |-> {[doctor_id |-> "d1", patient_id |-> "p1", start_time |-> "s1"],
                       [doctor_id |-> "d1", patient_id |-> "p1", start_time |-> "s1",
                        status |-> "completed", tenant_id |-> "t1"],
                       [doctor_id |-> "d2", patient_id |-> "p1", start_time |-> "s1",
                        status |-> "cancelled", tenant_id |-> "t1"],
                       [doctor_id |-> "d2", patient_id |-> "p1", start_time |-> "s1",
                        status |-> "bogus"],
                       [doctor_id |-> "d1", patient_id |-> "p1", start_time |-> "s1",
                        status |-> None]},
     emr          |-> {[doctor_id |-> "d1", patient_id |-> "p1", plan |-> "rest"],
                       [doctor_id |-> "d1", patient_id |-> "p2"]},
     prescription |-> {[doctor_id |-> "d1", patient_id |-> "p1"]}]

\* Optional query parameters: None when the parameter is not supplied.
TenantParams == {None, "", "t1"}
DoctorParams == {None, "d1", "d2"}
StatusParams == {None, "", "scheduled", "bogus"}
SearchParams == {NoneList, << >>, << "a" >>, << "B", "O" >>}

VARIABLES store, nextId, issued, pc, event

vars == << store, nextId, issued, pc, event >>

Workers == 1..NumWorkers

Idle == [op |-> "idle"]

TotalDocs == SeqSum([i \in 1..6 |->
    Len(store[<< "doctor", "facility", "patient", "appointment", "emr", "prescription" >>[i]])])

(***************************************************************************)
(* The document store (pymongo) and the adapter of database.py.            *)
(***************************************************************************)
\* A filter: the equality constraints and the "$regex" constraints, each by field.
Filter(eq, regex) == [eq |-> eq, regex |-> regex]

\* {"$regex": pat, "$options": "i"} for a pattern without metacharacters.
RegexSearch(pat, text) == \E i \in 1..(Len(text) + 1) : MatchesAt(pat, text, i)

\* Does doc satisfy the filter q?
Matches(doc, q) ==
    /\ \A k \in DOMAIN q.eq : k \in DOMAIN doc /\ doc[k] = q.eq[k]
    /\ \A k \in DOMAIN q.regex :
            k \in DOMAIN doc /\ ~IsNone(k, doc[k]) /\ RegexSearch(q.regex[k], doc[k])

\* collection.find_one({"_id": id}): the positions holding that identifier.
FindById(docs, id) == {i \in 1..Len(docs) : docs[i]["_id"] = id}

\* collection.count_documents(q)
count_documents(docs, q) == Cardinality({i \in 1..Len(docs) : Matches(docs[i], q)})

\* As SetFields, were the document replaced by the update: the fields not named are lost.
SetFields_replace(doc, updates) ==
    [k \in DOMAIN doc \cup DOMAIN updates |->
        IF k \in DOMAIN updates THEN updates[k]
        ELSE IF k = "_id" THEN doc[k]
        ELSE IF k \in SeqFields THEN NoneList ELSE None]

\* $set: the named fields are overwritten (or added), the others kept.
SetFields(doc, updates) ==
    [k \in DOMAIN doc \cup DOMAIN updates |->
        IF k \in DOMAIN updates THEN updates[k] ELSE doc[k]]

\* create_document(collection_name, data): insert with a fresh identifier.
create_document(c, data) ==
    /\ store' = [store EXCEPT ![c] = Append(@, [k \in DOMAIN data \cup {"_id"} |->
                    IF k = "_id" THEN nextId ELSE data[k]])]
    /\ issued' = [issued EXCEPT ![c] = Append(@, nextId)]
    /\ nextId' = nextId + 1

\* get_documents(collection_name, filter, limit): most recent first; limit 0 is None.
get_documents(c, q, limit) ==
    LET found == Reverse(SelectDocs(store[c], [d \in {store[c][i] : i \in 1..Len(store[c])} |->
                                                   Matches(d, q)]))
    IN  IF limit = 0 THEN found ELSE SubSeq(found, 1, Min(limit, Len(found)))

Init ==
    /\ store = [c \in Collections |-> << >>]
    /\ nextId = 1
    /\ issued = [c \in Collections |-> << >>]
    /\ pc = [w \in Workers |-> Idle]
    /\ event = [op |-> "start"]

(***************************************************************************)
(* POST /doctors, /facilities, ...: validate, insert, answer {id}.         *)
(***************************************************************************)
CreateHandler(c, name) ==
    \E body \in Bodies[c] :
        /\ UNCHANGED pc
        /\ IF Validates(c, body)
           THEN /\ TotalDocs < MaxDocs
                /\ create_document(c, ModelDump(c, body))
                /\ event' = [op |-> name, body_in |-> body, status |-> 200,
                             body |-> [id |-> ObjectIdStr(nextId)]]
           ELSE /\ UNCHANGED << store, nextId, issued >>
                /\ event' = [op |-> name, body_in |-> body, status |-> 422]

create_doctor == CreateHandler("doctor", "create_doctor")

create_facility == CreateHandler("facility", "create_facility")

create_patient == CreateHandler("patient", "create_patient")

create_appointment == CreateHandler("appointment", "create_appointment")

create_emr == CreateHandler("emr", "create_emr")

create_prescription == CreateHandler("prescription", "create_prescription")

(***************************************************************************)
(* GET /doctors, /patients, /appointments, /emrs/{patient_id}              *)
(***************************************************************************)
DefaultLimit == 0

Listing(docs) == [i \in 1..Len(docs) |-> serialize(docs[i])]

list_doctors ==
    \E tenant_id \in TenantParams :
        LET q == IF Truthy(tenant_id) THEN [tenant_id |-> tenant_id] ELSE EmptyBody
            docs == get_documents("doctor", Filter(q, EmptyBody), DefaultLimit)
        IN  /\ event' = [op |-> "list_doctors", tenant_id |-> tenant_id,
                         status |-> 200, body |-> Listing(docs)]
            /\ UNCHANGED << store, nextId, issued, pc >>

list_patients ==
    \E tenant_id \in TenantParams, search \in SearchParams :
        LET q == IF Truthy(tenant_id) THEN [tenant_id |-> tenant_id] ELSE EmptyBody
            r == IF TruthyText(search) THEN [full_name |-> search] ELSE EmptyBody
            docs == get_documents("patient", Filter(q, r), 0)
        IN  /\ event' = [op |-> "list_patients", tenant_id |-> tenant_id,
                         search |-> search, status |-> 200, body |-> Listing(docs)]
            /\ UNCHANGED << store, nextId, issued, pc >>

\* The q of list_appointments and of get_metrics: one key per truthy parameter.
AppointmentQuery(doctor_id, tenant_id, status) ==
    [k \in (IF Truthy(doctor_id) THEN {"doctor_id"} ELSE {})
            \cup (IF Truthy(tenant_id) THEN {"tenant_id"} ELSE {})
            \cup (IF Truthy(status) THEN {"status"} ELSE {}) |->
        CASE k = "doctor_id" -> doctor_id
          [] k = "tenant_id" -> tenant_id
          [] k = "status" -> status]

list_appointments ==
    \E doctor_id \in DoctorParams, tenant_id \in TenantParams, status \in StatusParams :
        LET q == AppointmentQuery(doctor_id, tenant_id, status)
            docs == get_documents("appointment", Filter(q, EmptyBody), DefaultLimit)
        IN  /\ event' = [op |-> "list_appointments", doctor_id |-> doctor_id,
                         tenant_id |-> tenant_id, status_in |-> status,
                         status |-> 200, body |-> Listing(docs)]
            /\ UNCHANGED << store, nextId, issued, pc >>

list_emrs_for_patient ==
    \E patient_id \in {"p1", "p2"} :
        LET docs == get_documents("emr", Filter([patient_id |-> patient_id], EmptyBody),
                                  DefaultLimit)
        IN  /\ event' = [op |-> "list_emrs_for_patient", patient_id |-> patient_id,
                         status |-> 200, body |-> Listing(docs)]
            /\ UNCHANGED << store, nextId, issued, pc >>

(***************************************************************************)
(* GET /patients/{patient_id}, /appointments/{appointment_id}              *)
(***************************************************************************)
GetById(c, name) ==
    \E id_str \in IdStrings :
        /\ UNCHANGED << store, nextId, issued, pc >>
        /\ IF ~WellFormed(id_str)
           THEN event' = [op |-> name, id |-> id_str, status |-> 400]
           ELSE LET found == FindById(store[c], oid(id_str))
                IN  IF found = {}
                    THEN event' = [op |-> name, id |-> id_str, status |-> 404]
                    ELSE event' = [op |-> name, id |-> id_str, status |-> 200,
                                   body |-> serialize(store[c][CHOOSE i \in found : TRUE])]

get_patient == GetById("patient", "get_patient")

get_appointment == GetById("appointment", "get_appointment")

(***************************************************************************)
(* PATCH /doctors/{doctor_id}.  The handler makes two store calls,         *)
(* update_one and find_one; requests run on a thread pool, so another      *)
(* request's store call may fall between them.                             *)
(***************************************************************************)
UpdateFields == {"full_name", "phone", "specialty", "avatar_url", "bio", "facility_ids"}

UpdateBodies ==
    {EmptyBody,
     [full_name |-> NoneList, bio |-> None],
     [full_name |-> << "X" >>],
     [full_name |-> << "Y" >>, email |-> "evil@x", facility_ids |-> << >>]}

\* The DoctorUpdate built from a request body: the declared fields, None by default.
DoctorUpdate(body) ==
    [k \in UpdateFields |->
        IF k \in DOMAIN body THEN body[k]
        ELSE IF k \in SeqFields THEN NoneList ELSE None]

\* As ExcludeNone, were exclude_none left out of the dump.
ExcludeNone_keep(payload) == payload

\* payload.model_dump(exclude_none=True)
ExcludeNone(payload) ==
    [k \in {f \in DOMAIN payload : ~IsNone(f, payload[f])} |-> payload[k]]

\* As update_one, were the updated document saved under a fresh identifier.
update_one_newid(docs, id, updates) ==
    LET found == FindById(docs, id)
        first == CHOOSE i \in found : \A j \in found : i <= j
    IN  IF found = {} THEN docs
        ELSE [docs EXCEPT ![first] =
                [k \in DOMAIN @ |-> IF k = "_id" THEN nextId
                                    ELSE IF k \in DOMAIN updates THEN updates[k] ELSE @[k]]]

\* As update_one, were the filter left empty: the first document of the collection
\* is the one updated.
update_one_nofilter(docs, id, updates) ==
    IF docs = << >> THEN docs ELSE [docs EXCEPT ![1] = SetFields(@, updates)]

\* collection.update_one({"_id": id}, {"$set": updates}): the first match is updated.
update_one(docs, id, updates) ==
    LET found == FindById(docs, id)
        first == CHOOSE i \in found : \A j \in found : i <= j
    IN  IF found = {} THEN docs
        ELSE [docs EXCEPT ![first] = SetFields(@, updates)]

\* History: the fields of a request between its two calls that another request's
\* update_one on the same doctor has written since.
NoteOverwrites(w, id, updates) ==
    [v \in Workers |->
        IF v # w /\ pc[v].op = "update_doctor" /\ oid(pc[v].id) = id
        THEN [pc[v] EXCEPT !.overwritten = @ \cup (DOMAIN updates \cap DOMAIN pc[v].updates)]
        ELSE pc[v]]

update_doctor(w) ==
    /\ pc[w] = Idle
    /\ \E doctor_id \in IdStrings, body \in UpdateBodies :
        LET payload == DoctorUpdate(body)
            updates == ExcludeNone(payload)
            found == FindById(store["doctor"], oid(doctor_id))
            req == [id |-> doctor_id, body_in |-> body, payload |-> payload,
                    updates |-> updates]
        IN  /\ UNCHANGED << nextId, issued >>
            /\ IF DOMAIN updates = {}
               THEN /\ event' = req @@ [op |-> "update_doctor", status |-> 200,
                                        body |-> [updated |-> FALSE]]
                    /\ UNCHANGED << store, pc >>
               ELSE IF ~WellFormed(doctor_id)
               THEN /\ event' = req @@ [op |-> "update_doctor", status |-> 400]
                    /\ UNCHANGED << store, pc >>
               ELSE IF found = {}
               THEN /\ event' = req @@ [op |-> "update_doctor", status |-> 404]
                    /\ UNCHANGED << store, pc >>
               ELSE /\ store' = [store EXCEPT !["doctor"] =
                                    update_one(@, oid(doctor_id), updates)]
                    /\ pc' = [NoteOverwrites(w, oid(doctor_id), updates) EXCEPT ![w] =
                                 req @@ [op |-> "update_doctor", overwritten |-> {}]]
                    /\ event' = req @@ [op |-> "update_one"]

update_doctor_find_one(w) ==
    /\ pc[w].op = "update_doctor"
    /\ LET found == FindById(store["doctor"], oid(pc[w].id))
       IN  event' = [pc[w] EXCEPT !.op = "update_doctor"] @@
                    [status |-> 200,
                     body |-> IF found = {} THEN EmptyBody
                              ELSE serialize(store["doctor"][CHOOSE i \in found : TRUE])]
    /\ pc' = [pc EXCEPT ![w] = Idle]
    /\ UNCHANGED << store, nextId, issued >>

(***************************************************************************)
(* GET /metrics: four count_documents calls, one after the other.          *)
(***************************************************************************)
get_metrics(w) ==
    /\ pc[w] = Idle
    /\ \E doctor_id \in DoctorParams, tenant_id \in TenantParams :
        LET q_appt == AppointmentQuery(doctor_id, tenant_id, None)
        IN  /\ pc' = [pc EXCEPT ![w] =
                        [op |-> "get_metrics", at |-> "completed", q_appt |-> q_appt,
                         total_appts |-> count_documents(store["appointment"],
                                                         Filter(q_appt, EmptyBody))]]
            /\ event' = [op |-> "count_documents", q_appt |-> q_appt]
    /\ UNCHANGED << store, nextId, issued >>

\* As CountStatus, were the status constraint left out of the filter.
CountStatus_all(w, status) ==
    count_documents(store["appointment"], Filter(pc[w].q_appt, EmptyBody))

\* One further count: {**q_appt, "status": status}.
CountStatus(w, status) ==
    count_documents(store["appointment"],
                    Filter(SetFields(pc[w].q_appt, [status |-> status]), EmptyBody))

get_metrics_completed(w) ==
    /\ pc[w].op = "get_metrics" /\ pc[w].at = "completed"
    /\ pc' = [pc EXCEPT ![w] = [op |-> "get_metrics", at |-> "scheduled",
                                q_appt |-> pc[w].q_appt,
                                total_appts |-> pc[w].total_appts,
                                completed |-> CountStatus(w, "completed")]]
    /\ event' = [op |-> "count_documents", q_appt |-> pc[w].q_appt]
    /\ UNCHANGED << store, nextId, issued >>

get_metrics_scheduled(w) ==
    /\ pc[w].op = "get_metrics" /\ pc[w].at = "scheduled"
    /\ pc' = [pc EXCEPT ![w] = [op |-> "get_metrics", at |-> "cancelled",
                                q_appt |-> pc[w].q_appt,
                                total_appts |-> pc[w].total_appts,
                                completed |-> pc[w].completed,
                                scheduled |-> CountStatus(w, "scheduled")]]
    /\ event' = [op |-> "count_documents", q_appt |-> pc[w].q_appt]
    /\ UNCHANGED << store, nextId, issued >>

get_metrics_cancelled(w) ==
    /\ pc[w].op = "get_metrics" /\ pc[w].at = "cancelled"
    /\ pc' = [pc EXCEPT ![w] = Idle]
    /\ event' = [op |-> "get_metrics", q_appt |-> pc[w].q_appt, status |-> 200,
                 total_appts |-> pc[w].total_appts,
                 scheduled |-> pc[w].scheduled,
                 completed |-> pc[w].completed,
                 cancelled |-> CountStatus(w, "cancelled")]
    /\ UNCHANGED << store, nextId, issued >>

(***************************************************************************)
(* POST /emr/generate: the labelled sections of a transcript.              *)
(***************************************************************************)
Whitespace == {" ", "\n"}

RECURSIVE LStrip(_)
LStrip(text) ==
    IF text # << >> /\ Head(text) \in Whitespace THEN LStrip(Tail(text)) ELSE text

RECURSIVE RStrip(_)
RStrip(text) ==
    IF text # << >> /\ text[Len(text)] \in Whitespace
    THEN RStrip(SubSeq(text, 1, Len(text) - 1))
    ELSE text

\* str.strip()
Strip(text) == RStrip(LStrip(text))

\* The group of \s*(.*) under re.DOTALL, matched from position i: the white space
\* is skipped and everything to the end of the text is captured.
CaptureFrom(text, i) == LStrip(SubSeq(text, i, Len(text)))

\* The places where label[:\-] matches in text, ignoring case.
LabelAt(label, text) ==
    {i \in 1..Len(text) :
        /\ MatchesAt(label, text, i)
        /\ i + Len(label) <= Len(text)
        /\ text[i + Len(label)] \in {":", "-"}}

\* find(pattern) for the pattern label[:\-]\s*(.*): the stripped capture of the
\* leftmost match, NoneList without a match.
find(label, text) ==
    LET at == LabelAt(label, text)
        first == CHOOSE i \in at : \A j \in at : i <= j
    IN  IF at = {} THEN NoneList
        ELSE Strip(CaptureFrom(text, first + Len(label) + 1))

SummaryLength == 500

L_chief_complaint == << "c", "h", "i", "e", "f", " ", "c", "o", "m", "p", "l", "a", "i", "n", "t" >>
L_cc == << "c", "c" >>
L_hpi == << "h", "p", "i" >>
L_ros == << "r", "o", "s" >>
L_exam == << "e", "x", "a", "m" >>
L_assessment == << "a", "s", "s", "e", "s", "s", "m", "e", "n", "t" >>
L_plan == << "p", "l", "a", "n" >>

\* The emr dict before its falsy values are dropped.
EmrFields(text) ==
    [chief_complaint |-> IF TruthyText(find(L_chief_complaint, text))
                         THEN find(L_chief_complaint, text) ELSE find(L_cc, text),
     history_of_present_illness |-> find(L_hpi, text),
     review_of_systems |-> find(L_ros, text),
     physical_exam |-> find(L_exam, text),
     assessment |-> find(L_assessment, text),
     plan |-> find(L_plan, text),
     summary |-> SubSeq(text, 1, Min(SummaryLength, Len(text)))]

\* The pieces transcripts are made of.
Pieces ==
    {<< "C", "h", "i", "e", "f", " ", "C", "o", "m", "p", "l", "a", "i", "n", "t", ":" >>,
     << " ", "c", "o", "u", "g", "h" >>,
     << "\n", "P", "l", "a", "n", ":" >>,
     << " ", "r", "e", "s", "t" >>,
     << "c", "c", "-" >>,
     << "H", "P", "I", ":", " " >>,
     << "r", "o", "s", ":" >>,
     << "E", "x", "a", "m", "-" >>,
     << "A", "s", "s", "e", "s", "s", "m", "e", "n", "t", ":" >>,
     << " " >>,
     << "x" >>}

RECURSIVE Concat(_)
Concat(parts) == IF parts = << >> THEN << >> ELSE Head(parts) \o Concat(Tail(parts))

Transcripts ==
    {Concat(parts) : parts \in UNION {[1..n -> Pieces] : n \in 0..MaxPieces}}

\* A request as received: the handler has not run yet.
Request(name, input) == [op |-> "request", to |-> name, input |-> input]

generate_emr ==
    /\ event.op = "request" /\ event.to = "generate_emr"
    /\ LET text == Strip(event.input)
           emr == EmrFields(text)
       IN  IF text = << >>
           THEN event' = [op |-> "generate_emr", transcript |-> event.input,
                          status |-> 400]
           ELSE event' = [op |-> "generate_emr", transcript |-> event.input,
                          status |-> 200,
                          body |-> [k \in {f \in DOMAIN emr : TruthyText(emr[f])} |->
                                       emr[k]]]
    /\ UNCHANGED << store, nextId, issued, pc >>

(***************************************************************************)
(* POST /prescription/preview: one line per medication.  A medication is a *)
(* dict from some of the keys name, dose, route, frequency, duration,      *)
(* notes to a character sequence or null.  The one-element string EmDash   *)
(* stands for the character U+2014.                                        *)
(***************************************************************************)
EmDash == "EM DASH"

Medicine == << "M", "e", "d", "i", "c", "i", "n", "e" >>

\* m.get(key, default)
Get(m, key, default) == IF key \in DOMAIN m THEN m[key] ELSE default

RECURSIVE Join(_, _)
\* sep.join(parts)
Join(parts, sep) ==
    IF parts = << >> THEN << >>
    ELSE IF Len(parts) = 1 THEN parts[1]
    ELSE parts[1] \o sep \o Join(Tail(parts), sep)

\* As MedName, were the fallback written m.get("name") or "Medicine".
MedName_or(m) ==
    IF TruthyText(Get(m, "name", NoneList)) THEN m["name"] ELSE Medicine

\* m.get("name", "Medicine")
MedName(m) == Get(m, "name", Medicine)

\* The line of one medication.
MedLine(m) ==
    LET name == MedName(m)
        dose == Get(m, "dose", << >>)
        route == Get(m, "route", << >>)
        freq == Get(m, "frequency", << >>)
        duration == Get(m, "duration", << >>)
        note == Get(m, "notes", << >>)
        line == Join(SelectSeq(<< name, dose, route, freq, duration >>, TruthyText),
                     << ",", " " >>)
    IN  IF TruthyText(note) THEN line \o << " ", EmDash, " " >> \o note ELSE line

NameChoices == {EmptyBody, [name |-> NoneList], [name |-> << >>], [name |-> << "I", "b", "u", "p", "r", "o", "f", "e", "n" >>]}

DoseChoices ==
    {EmptyBody,
     [dose |-> << "2", "0", "0", "m", "g" >>, frequency |-> << "2", "x", "/", "d", "a", "y" >>],
     [dose |-> NoneList, route |-> << >>, duration |-> << "5", "d" >>]}

NoteChoices == {EmptyBody, [notes |-> << >>], [notes |-> << "p", "c" >>]}

Medications == {n @@ d @@ t : n \in NameChoices, d \in DoseChoices, t \in NoteChoices}

MedicationLists == UNION {[1..n -> Medications] : n \in 0..MaxMeds}

prescription_preview ==
    /\ event.op = "request" /\ event.to = "prescription_preview"
    /\ LET lines == [i \in 1..Len(event.input) |-> MedLine(event.input[i])]
       IN  event' = [op |-> "prescription_preview", medications |-> event.input,
                     status |-> 200, preview |-> Join(lines, << "\n" >>),
                     count |-> Len(lines)]
    /\ UNCHANGED << store, nextId, issued, pc >>

(***************************************************************************)
(* Specifications: the whole store, and its parts.                         *)
(***************************************************************************)
Next ==
    \/ create_doctor
    \/ create_facility
    \/ create_patient
    \/ create_appointment
    \/ create_emr
    \/ create_prescription
    \/ list_doctors
    \/ list_patients
    \/ list_appointments
    \/ list_emrs_for_patient
    \/ get_patient
    \/ get_appointment
    \/ \E w \in Workers : update_doctor(w)
    \/ \E w \in Workers : update_doctor_find_one(w)
    \/ \E w \in Workers : get_metrics(w)
    \/ \E w \in Workers : get_metrics_completed(w)
    \/ \E w \in Workers : get_metrics_scheduled(w)
    \/ \E w \in Workers : get_metrics_cancelled(w)

Spec == Init /\ [][Next]_vars

\* Doctors: creation and partial update, with patients beside them.
NextDoctor ==
    \/ create_doctor
    \/ create_patient
    \/ \E w \in Workers : update_doctor(w)
    \/ \E w \in Workers : update_doctor_find_one(w)

SpecDoctor == Init /\ [][NextDoctor]_vars

\* Every operation that creates or changes a document.
NextWrite ==
    \/ create_doctor
    \/ create_facility
    \/ create_patient
    \/ create_appointment
    \/ create_emr
    \/ create_prescription
    \/ \E w \in Workers : update_doctor(w)
    \/ \E w \in Workers : update_doctor_find_one(w)

SpecWrite == Init /\ [][NextWrite]_vars

\* The operations that take an identifier in their path.
NextById ==
    \/ create_doctor
    \/ create_patient
    \/ create_appointment
    \/ get_patient
    \/ get_appointment
    \/ \E w \in Workers : update_doctor(w)
    \/ \E w \in Workers : update_doctor_find_one(w)

SpecById == Init /\ [][NextById]_vars

\* The transcript extractor, applied to each transcript.
InitEmr ==
    /\ store = [c \in Collections |-> << >>]
    /\ nextId = 1
    /\ issued = [c \in Collections |-> << >>]
    /\ pc = [w \in Workers |-> Idle]
    /\ event \in {Request("generate_emr", t) : t \in Transcripts}

NextEmr == generate_emr

SpecEmr == InitEmr /\ [][NextEmr]_vars

\* The prescription formatter, applied to each list of medications.
InitRx ==
    /\ store = [c \in Collections |-> << >>]
    /\ nextId = 1
    /\ issued = [c \in Collections |-> << >>]
    /\ pc = [w \in Workers |-> Idle]
    /\ event \in {Request("prescription_preview", ms) : ms \in MedicationLists}

NextRx == prescription_preview

SpecRx == InitRx /\ [][NextRx]_vars

\* Appointments and the dashboard counters.
NextMetrics ==
    \/ create_appointment
    \/ \E w \in Workers : get_metrics(w)
    \/ \E w \in Workers : get_metrics_completed(w)
    \/ \E w \in Workers : get_metrics_scheduled(w)
    \/ \E w \in Workers : get_metrics_cancelled(w)

SpecMetrics == Init /\ [][NextMetrics]_vars

\* The three filtered listings.
NextList ==
    \/ create_doctor
    \/ create_patient
    \/ create_appointment
    \/ list_doctors
    \/ list_patients
    \/ list_appointments

SpecList == Init /\ [][NextList]_vars

(***************************************************************************)
(* Properties of the store operations.                                     *)
(***************************************************************************)
\* The fields a PATCH request provides: those of its payload that are not null.
Provided(payload) == {k \in DOMAIN payload : ~IsNone(k, payload[k])}

\* C1: a partial update of an existing doctor with a non-empty set of provided
\* fields overwrites exactly the provided fields of that doctor; its other fields
\* (email, tenant_id and the identifier among them) and every other stored document
\* of every collection are unchanged, and the read-back changes nothing.
C1_UpdateOverwritesOnlyProvided ==
    [][ /\ event'.op = "update_one" =>
            /\ Provided(event'.payload) # {}
            /\ \A c \in Collections :
                  /\ Len(store'[c]) = Len(store[c])
                  /\ \A i \in 1..Len(store[c]) :
                        IF c = "doctor" /\ store[c][i]["_id"] = oid(event'.id)
                        THEN /\ DOMAIN store'[c][i] = DOMAIN store[c][i]
                             /\ \A k \in DOMAIN store[c][i] :
                                   store'[c][i][k] =
                                      IF k \in Provided(event'.payload)
                                      THEN event'.payload[k] ELSE store[c][i][k]
                        ELSE store'[c][i] = store[c][i]
        /\ (event'.op = "update_doctor" /\ event'.status = 200) => store' = store
      ]_vars

\* C1 witness: doctor B, created with a phone and a facility, after a PATCH of
\* full_name and facility_ids, with another doctor stored beside it.
C1_Witness ==
    /\ event.op = "update_one"
    /\ Len(store["doctor"]) = 2
    /\ \E i \in 1..2 :
          /\ store["doctor"][i]["_id"] = oid(event.id)
          /\ store["doctor"][i]["full_name"] = << "Y" >>
          /\ store["doctor"][i]["facility_ids"] = << >>
          /\ store["doctor"][i]["phone"] = "p0"
          /\ store["doctor"][i]["email"] = "b@x"

\* C2: every stored entity has exactly one identifier, the one it was given at
\* creation; no two entities of a collection share one, and no operation changes it.
C2_IdentifiersFixed ==
    \A c \in Collections :
        /\ Len(store[c]) = Len(issued[c])
        /\ \A i \in 1..Len(store[c]) :
              /\ "_id" \in DOMAIN store[c][i]
              /\ "id" \notin DOMAIN store[c][i]
              /\ store[c][i]["_id"] = issued[c][i]
              /\ \A j \in 1..Len(store[c]) : i # j => store[c][i]["_id"] # store[c][j]["_id"]

\* C2 witness: two doctors stored, one of them updated since.
C2_Witness ==
    /\ Len(store["doctor"]) = 2
    /\ event.op = "update_doctor" /\ event.status = 200
    /\ Provided(event.payload) # {}
    /\ event.body["id"] = ObjectIdStr(2)

AppointmentStatuses == {"scheduled", "completed", "cancelled", "no_show"}

\* C3: the status of every stored appointment is one of scheduled, completed,
\* cancelled, no_show.
C3_StatusInEnum ==
    \A i \in 1..Len(store["appointment"]) :
        store["appointment"][i]["status"] \in AppointmentStatuses

\* The collection an operation with an identifier in its path looks into.
PathCollection(op) ==
    CASE op = "get_patient" -> "patient"
      [] op = "get_appointment" -> "appointment"
      [] op = "update_doctor" -> "doctor"

\* C4: get_patient, get_appointment and update_doctor answer by the identifier
\* alone: 400 for a malformed one, 404 for a well-formed one that matches no
\* document, and the store is unchanged in both cases.
C4_ClassifiedByIdentifier ==
    [][ event'.op \in {"get_patient", "get_appointment", "update_doctor"} =>
            /\ ~WellFormed(event'.id) => event'.status = 400
            /\ (WellFormed(event'.id)
                  /\ FindById(store[PathCollection(event'.op)], oid(event'.id)) = {})
                    => event'.status = 404
            /\ event'.status \in {400, 404} => store' = store
      ]_vars

\* C5: update_doctor with no field provided, or every provided field null, writes
\* nothing and answers {updated: false}, whatever the identifier.
C5_EmptyUpdateIsNoOp ==
    [][ (event'.op \in {"update_doctor", "update_one"} /\ Provided(event'.payload) = {}) =>
            /\ store' = store
            /\ pc' = pc
            /\ event'.op = "update_doctor"
            /\ event'.status = 200
            /\ event'.body = [updated |-> FALSE]
      ]_vars

\* C5 witness: a PATCH of an existing doctor whose only fields are null.
C5_Witness ==
    /\ event.op = "update_doctor"
    /\ event.body_in = [full_name |-> NoneList, bio |-> None]
    /\ event.body = [updated |-> FALSE]
    /\ FindById(store["doctor"], oid(event.id)) # {}

\* The documents of a listing's collection, by operation.
ListCollection(op) ==
    CASE op = "list_doctors" -> "doctor"
      [] op = "list_patients" -> "patient"
      [] op = "list_appointments" -> "appointment"

\* The equality parameters a listing request supplied (None: not supplied).
Supplied(e) ==
    LET given == [tenant_id |-> e.tenant_id]
                 @@ (IF e.op = "list_appointments"
                     THEN [doctor_id |-> e.doctor_id, status |-> e.status_in]
                     ELSE EmptyBody)
    IN  [k \in {f \in DOMAIN given : given[f] # None} |-> given[k]]

\* C6: a listing returns no document with a field that differs from a supplied
\* equality parameter, whatever the parameter's value, and leaves out no document
\* that agrees with all the supplied ones (and, for patients, with the search).
C6_ListingMatchesParameters ==
    event.op \in {"list_doctors", "list_patients", "list_appointments"} =>
        LET docs == store[ListCollection(event.op)]
            want == Supplied(event)
            agrees(d) == \A k \in DOMAIN want : d[k] = want[k]
            searched(d) == event.op = "list_patients" /\ TruthyText(event.search)
                               => RegexSearch(event.search, d["full_name"])
        IN  /\ \A i \in 1..Len(event.body) : agrees(event.body[i])
            /\ \A i \in 1..Len(docs) :
                  (agrees(docs[i]) /\ searched(docs[i]))
                      => \E j \in 1..Len(event.body) : event.body[j] = serialize(docs[i])

\* The counts of the appointments as stored now, for the query of a metrics response.
CountNow(q_appt) == count_documents(store["appointment"], Filter(q_appt, EmptyBody))

CountNowStatus(q_appt, status) ==
    Cardinality({i \in 1..Len(store["appointment"]) :
                    /\ Matches(store["appointment"][i], Filter(q_appt, EmptyBody))
                    /\ store["appointment"][i]["status"] = status})

\* C9 as claimed: Scheduled + Completed + Cancelled <= Total Appointments in
\* every get_metrics response.
C9_ConsistentSnapshot ==
    event.op = "get_metrics" =>
        event.scheduled + event.completed + event.cancelled <= event.total_appts

\* C9 as amended: each value is the count at the time of its own query, so none
\* exceeds the count at the time of the response and Scheduled + Completed +
\* Cancelled <= the matching appointments stored then; when no matching
\* appointment was created since the first query (Total is still current), the
\* four values are the counts of that one state.
C9_CountsOfSuccessiveStates ==
    event.op = "get_metrics" =>
        /\ event.total_appts <= CountNow(event.q_appt)
        /\ event.completed <= CountNowStatus(event.q_appt, "completed")
        /\ event.scheduled <= CountNowStatus(event.q_appt, "scheduled")
        /\ event.cancelled = CountNowStatus(event.q_appt, "cancelled")
        /\ event.scheduled + event.completed + event.cancelled <= CountNow(event.q_appt)
        /\ event.total_appts = CountNow(event.q_appt) =>
              /\ event.completed = CountNowStatus(event.q_appt, "completed")
              /\ event.scheduled = CountNowStatus(event.q_appt, "scheduled")
              /\ event.scheduled + event.completed + event.cancelled <= event.total_appts

\* C9 witness: a response whose Total was counted before an appointment that its
\* Scheduled count includes.
C9_Witness ==
    /\ event.op = "get_metrics"
    /\ event.total_appts < CountNow(event.q_appt)
    /\ event.total_appts < event.scheduled + event.completed + event.cancelled

\* C10 as claimed: the document a successful update_doctor returns carries, for
\* each provided field, the value that request provided.
C10_ReturnsOwnValues ==
    (event.op = "update_doctor" /\ event.status = 200 /\ Provided(event.payload) # {}) =>
        \A k \in Provided(event.payload) : event.body[k] = event.payload[k]

\* C10 as amended: the returned document is the doctor as stored at the time of
\* the read-back; each provided field carries the value this request provided
\* unless another update_doctor on the same doctor wrote that field between this
\* request's write and its read-back.
C10_ReturnsStoredDocument ==
    (event.op = "update_doctor" /\ event.status = 200 /\ Provided(event.payload) # {}) =>
        /\ \E i \in 1..Len(store["doctor"]) :
              /\ store["doctor"][i]["_id"] = oid(event.id)
              /\ event.body = serialize(store["doctor"][i])
        /\ \A k \in Provided(event.payload) \ event.overwritten :
              event.body[k] = event.payload[k]

\* C10 witness: a response that carries another request's full_name.
C10_Witness ==
    /\ event.op = "update_doctor" /\ event.status = 200
    /\ event.payload["full_name"] = << "X" >>
    /\ event.body["full_name"] = << "Y" >>
    /\ event.overwritten = {"full_name"}

(***************************************************************************)
(* Properties of the derived utilities.                                    *)
(***************************************************************************)
SectionLabels ==
    {L_chief_complaint, L_cc, L_hpi, L_ros, L_exam, L_assessment, L_plan}

ExampleTranscript == Concat(<< << "C", "h", "i", "e", "f", " ", "C", "o", "m", "p", "l", "a", "i", "n", "t", ":" >>, << " ", "c", "o", "u", "g", "h" >>, << "\n", "P", "l", "a", "n", ":" >>, << " ", "r", "e", "s", "t" >> >>)

\* C7: each recognised section holds the text after its label up to the next
\* section label or the end of the text: no section's value contains a section
\* label with its colon or dash, and "Chief Complaint: cough\nPlan: rest" yields
\* chief_complaint "cough", plan "rest" and the summary, nothing else.
C7_SectionsEndAtNextLabel ==
    (event.op = "generate_emr" /\ event.status = 200) =>
        /\ \A k \in DOMAIN event.body \ {"summary"} :
              \A label \in SectionLabels : LabelAt(label, event.body[k]) = {}
        /\ event.transcript = ExampleTranscript =>
              event.body = [chief_complaint |-> << "c", "o", "u", "g", "h" >>, plan |-> << "r", "e", "s", "t" >>,
                            summary |-> ExampleTranscript]

\* The lines of a preview: the text between its line breaks.
RECURSIVE SplitLines(_)
SplitLines(text) ==
    LET breaks == {i \in 1..Len(text) : text[i] = "\n"}
        first == CHOOSE i \in breaks : \A j \in breaks : i <= j
    IN  IF breaks = {} THEN << text >>
        ELSE << SubSeq(text, 1, first - 1) >> \o SplitLines(SubSeq(text, first + 1, Len(text)))

\* The line C8 describes for medication m: its non-empty name, dose, route,
\* frequency and duration in that order, "Medicine" for an absent name, ", "
\* between them, then " -- note" for a non-empty note.
ClaimedLine(m) ==
    LET present(k) == k \in DOMAIN m /\ m[k] # NoneList /\ m[k] # << >>
        value(k) == IF k = "name" /\ "name" \notin DOMAIN m THEN Medicine
                    ELSE IF present(k) THEN m[k] ELSE << >>
        keys == << "name", "dose", "route", "frequency", "duration" >>
        upTo[n \in 0..5] ==
            IF n = 0 THEN << >>
            ELSE IF value(keys[n]) = << >> THEN upTo[n - 1]
            ELSE IF \A j \in 1..(n - 1) : value(keys[j]) = << >>
                 THEN value(keys[n])
                 ELSE upTo[n - 1] \o << ",", " " >> \o value(keys[n])
    IN  IF present("notes") THEN upTo[5] \o << " ", EmDash, " " >> \o m["notes"]
        ELSE upTo[5]

====
